---- MODULE Spec2Model ----
(***************************************************************************)
(* Model of the expense categorizer of finance_tracker                     *)
(* (src/categorizer.py, class ExpenseCategorizer): the keyword rule        *)
(* classifier, the remote (OpenAI) classifier, the TF-IDF / naive Bayes    *)
(* classifier with its trained-model slot, and the dispatching             *)
(* categorize_transaction.                                                 *)
(***************************************************************************)
EXTENDS Integers, Sequences, FiniteSets, TLC

VARIABLES openai_client, vectorizer, ml_model, calls, succeeded, last, tpc, tloc, cpc, cloc

vars == <<openai_client, vectorizer, ml_model, calls, succeeded, last, tpc, tloc, cpc, cloc>>

(***************************************************************************)
(* Bounds                                                                  *)
(***************************************************************************)
\* number of train_ml_model calls that get as far as constructing a vectorizer
MaxTrainCalls == 2

(***************************************************************************)
(* Text: Python str operations used by the classifiers                     *)
(***************************************************************************)
UpperLetters == "ABCDEFGHIJKLMNOPQRSTUVWXYZ"

LowerLetters == "abcdefghijklmnopqrstuvwxyz"

Whitespace == {" ", "\n", "\t"}

\* str.lower() on one character
LowerChar(c) ==
    IF \E i \in 1..Len(UpperLetters) : SubSeq(UpperLetters, i, i) = c
    THEN LET i == CHOOSE j \in 1..Len(UpperLetters) : SubSeq(UpperLetters, j, j) = c
         IN  SubSeq(LowerLetters, i, i)
    ELSE c

RECURSIVE Lower(_)
\* str.lower()
Lower(s) ==
    IF Len(s) = 0 THEN ""
    ELSE LowerChar(SubSeq(s, 1, 1)) \o Lower(SubSeq(s, 2, Len(s)))

\* the Python test `pattern in text` on two str values
Contains(pattern, text) ==
    \E i \in 1..(Len(text) - Len(pattern) + 1) :
        SubSeq(text, i, i + Len(pattern) - 1) = pattern

RECURSIVE Strip(_)
\* str.strip()
Strip(s) ==
    IF Len(s) = 0 THEN ""
    ELSE IF SubSeq(s, 1, 1) \in Whitespace THEN Strip(SubSeq(s, 2, Len(s)))
    ELSE IF SubSeq(s, Len(s), Len(s)) \in Whitespace THEN Strip(SubSeq(s, 1, Len(s) - 1))
    ELSE s

(***************************************************************************)
(* Categories and the rule table                                           *)
(***************************************************************************)
\* self.categories
categories ==
    <<"Food", "Transport", "Entertainment", "Shopping",
      "Utilities", "Healthcare", "Education", "Others">>

CategorySet == {categories[i] : i \in 1..Len(categories)}

\* self.category_patterns, in the insertion order dict.items() iterates in
category_patterns ==
    << [category |-> "Food",
        patterns |-> <<"restaurant", "food", "cafe", "starbucks", "mcdonald", "pizza", "grocery", "supermarket">>],
       [category |-> "Transport",
        patterns |-> <<"uber", "taxi", "gas", "fuel", "parking", "metro", "bus", "train">>],
       [category |-> "Entertainment",
        patterns |-> <<"netflix", "spotify", "movie", "cinema", "game", "concert", "theater">>],
       [category |-> "Shopping",
        patterns |-> <<"amazon", "mall", "store", "shop", "purchase", "buy", "clothes">>],
       [category |-> "Utilities",
        patterns |-> <<"electric", "water", "internet", "phone", "rent", "bill">>],
       [category |-> "Healthcare",
        patterns |-> <<"hospital", "doctor", "pharmacy", "medical", "dental", "health">>],
       [category |-> "Education",
        patterns |-> <<"school", "college", "course", "book", "education", "tuition">>] >>

RECURSIVE RuleScanLastWins(_, _, _)
\* variant: the loops record a match and keep going, so the last matching
\* category wins
RuleScanLastWins(description_lower, i, j) ==
    IF i > Len(category_patterns) THEN "Others"
    ELSE LET later == RuleScanLastWins(description_lower, i + 1, 1)
         IN  IF later # "Others" THEN later
             ELSE IF \E k \in j..Len(category_patterns[i].patterns) :
                        Contains(category_patterns[i].patterns[k], description_lower)
                  THEN category_patterns[i].category
             ELSE "Others"

RECURSIVE RuleScan(_, _, _)
\* the two nested for loops of rule_based_categorization: entry i, pattern j
RuleScan(description_lower, i, j) ==
    IF i > Len(category_patterns) THEN "Others"
    ELSE IF j > Len(category_patterns[i].patterns) THEN RuleScan(description_lower, i + 1, 1)
    ELSE IF Contains(category_patterns[i].patterns[j], description_lower)
         THEN category_patterns[i].category
    ELSE RuleScan(description_lower, i, j + 1)

\* variant: the description is matched as typed, not lower-cased
rule_based_case_sensitive(description) == RuleScan(description, 1, 1)

rule_based_categorization(description) == RuleScan(Lower(description), 1, 1)

(***************************************************************************)
(* The trained-model slot: self.vectorizer and self.ml_model               *)
(***************************************************************************)
\* Python None in self.vectorizer / self.ml_model.  Every other object
\* carries the number of the train_ml_model call that constructed it.
None == [call |-> 0, fitted |-> FALSE, classes |-> {}]

\* TfidfVectorizer(max_features=1000, stop_words='english'), not yet fitted
TfidfVectorizer(c) == [call |-> c, fitted |-> FALSE, classes |-> {}]

\* MultinomialNB(), not yet fitted
MultinomialNB(c) == [call |-> c, fitted |-> FALSE, classes |-> {}]

\* vectorizer.fit_transform(X) fits the vectorizer object in place
fit_transform(v) == [v EXCEPT !.fitted = TRUE]

\* ml_model.fit(X_train, y_train): the classes are the labels of y_train
fit(m, y_train) == [m EXCEPT !.fitted = TRUE, !.classes = y_train]

\* truth value of an attribute in `if not self.ml_model or not self.vectorizer`
Truthy(obj) == obj # None

(***************************************************************************)
(* Inputs                                                                  *)
(***************************************************************************)
\* `if len(df) < 20`
MinTrainRows == 20

RowCounts == {0, MinTrainRows - 1, MinTrainRows}

\* labels a training table can carry: the category column is free text
TrainLabels == {"Food", "Groceries"}

\* what in the table stops training after the size check, if anything:
\*   missing_column   df['description'] / df['category'] raises KeyError
\*   stop_words_only  fit_transform raises ValueError (empty vocabulary)
\*   nan_label        MultinomialNB.fit raises ValueError (y contains NaN)
Defects == {"none", "missing_column", "stop_words_only", "nan_label"}

\* a labeled table, by what train_ml_model reads of it
DataFrames ==
    [n : RowCounts, defect : Defects, y_train : {TrainLabels}]

NoDataFrame == [n |-> 0, defect |-> "none", y_train |-> TrainLabels]

Prefixes == {"", "FOOD "}

Cores == {"Uber", "business", "atm"}

Suffixes == {"", " bill"}

\* descriptions: text around a core word, any letter case
Descriptions == {p \o c \o s : p \in Prefixes, c \in Cores, s \in Suffixes}

\* amount=None
NoAmount == -1

Amounts == {NoAmount, 25}

Methods == {"rule", "ml", "openai", "auto"}

\* what the remote service does with the one request:
\*   text        a completion whose message content is `text`
\*   error       create() raises (connection, timeout, HTTP status, protocol)
\*   no_choices  a completion with an empty choices list
\*   no_content  a completion whose message content is None
RemoteOutcomes ==
    [kind : {"text"}, text : {"Food", " Transport\n", "Travel", "food"}]
    \cup [kind : {"error", "no_choices", "no_content"}, text : {""}]

NoRemote == [kind |-> "none", text |-> ""]

\* rule_based_categorization tabulated over the descriptions, evaluated once
RuleResult == [d \in Descriptions |-> rule_based_categorization(d)]

(***************************************************************************)
(* Operations as functions of the state they read                          *)
(***************************************************************************)
\* variant: the except clause answers 'Others', as the validation of the
\* remote answer does
openai_answer_failure_others(description, remote) ==
    IF remote.kind = "text"
    THEN LET category == Strip(remote.text)
         IN  IF category \in CategorySet THEN category ELSE "Others"
    ELSE "Others"

\* lines 78-79 and the except clause of openai_categorization, given the
\* outcome of the request
openai_answer(description, remote) ==
    IF remote.kind = "text"
    THEN LET category == Strip(remote.text)
         IN  IF category \in CategorySet THEN category ELSE "Others"
    ELSE RuleResult[description]

\* marker for an exception raised inside the try block of ml_categorization
Raised == "<exception>"

\* self.vectorizer.transform([description]) succeeds
transform_ok(v) == Truthy(v) /\ v.fitted

\* outcomes of self.ml_model.predict(desc_vectorized)[0] on features made by
\* vectorizer v: a class of the model, or an exception (model not fitted;
\* feature count of another training call's vectorizer not matching)
predict(m, v) ==
    IF ~(Truthy(m) /\ m.fitted) THEN {Raised}
    ELSE IF m.call = v.call THEN m.classes
    ELSE m.classes \cup {Raised}

\* variant: no try/except around transform and predict
ml_outcomes_no_except(description, v, m) ==
    IF ~Truthy(m) \/ ~Truthy(v)
    THEN {[result |-> RuleResult[description], failed |-> FALSE,
           used_vectorizer |-> None, used_model |-> None]}
    ELSE IF ~transform_ok(v)
    THEN {[result |-> Raised, failed |-> TRUE,
           used_vectorizer |-> v, used_model |-> None]}
    ELSE {[result |-> p, failed |-> p = Raised,
           used_vectorizer |-> v, used_model |-> m] : p \in predict(m, v)}

\* variant: every fallback of ml_categorization answers 'Others'
ml_outcomes_fallback_others(description, v, m) ==
    IF ~Truthy(m) \/ ~Truthy(v)
    THEN {[result |-> "Others", failed |-> FALSE,
           used_vectorizer |-> None, used_model |-> None]}
    ELSE IF ~transform_ok(v)
    THEN {[result |-> "Others", failed |-> TRUE,
           used_vectorizer |-> v, used_model |-> None]}
    ELSE {[result |-> IF p = Raised THEN "Others" ELSE p,
           failed |-> p = Raised,
           used_vectorizer |-> v, used_model |-> m] : p \in predict(m, v)}

\* ml_categorization on one view of the slot: the set of possible
\* [result, failed, used_vectorizer, used_model]
ml_outcomes(description, v, m) ==
    IF ~Truthy(m) \/ ~Truthy(v)
    THEN {[result |-> RuleResult[description], failed |-> FALSE,
           used_vectorizer |-> None, used_model |-> None]}
    ELSE IF ~transform_ok(v)
    THEN {[result |-> RuleResult[description], failed |-> TRUE,
           used_vectorizer |-> v, used_model |-> None]}
    ELSE {[result |-> IF p = Raised THEN RuleResult[description] ELSE p,
           failed |-> p = Raised,
           used_vectorizer |-> v, used_model |-> m] : p \in predict(m, v)}

\* variant: the vectorizer is replaced before the size check
train_outcome_late_size_check(df, v, m, c) ==
    IF df.n < MinTrainRows
    THEN [vectorizer |-> TfidfVectorizer(c), ml_model |-> m, result |-> "False"]
    ELSE IF df.defect = "missing_column"
    THEN [vectorizer |-> v, ml_model |-> m, result |-> "KeyError"]
    ELSE IF df.defect = "stop_words_only"
    THEN [vectorizer |-> TfidfVectorizer(c), ml_model |-> m, result |-> "ValueError"]
    ELSE IF df.defect = "nan_label"
    THEN [vectorizer |-> fit_transform(TfidfVectorizer(c)),
          ml_model |-> MultinomialNB(c), result |-> "ValueError"]
    ELSE [vectorizer |-> fit_transform(TfidfVectorizer(c)),
          ml_model |-> fit(MultinomialNB(c), df.y_train), result |-> "True"]

\* train_ml_model run to its end on slot <<v, m>> as call number c:
\* [vectorizer, ml_model, result]
train_outcome(df, v, m, c) ==
    IF df.n < MinTrainRows
    THEN [vectorizer |-> v, ml_model |-> m, result |-> "False"]
    ELSE IF df.defect = "missing_column"
    THEN [vectorizer |-> v, ml_model |-> m, result |-> "KeyError"]
    ELSE IF df.defect = "stop_words_only"
    THEN [vectorizer |-> TfidfVectorizer(c), ml_model |-> m, result |-> "ValueError"]
    ELSE IF df.defect = "nan_label"
    THEN [vectorizer |-> fit_transform(TfidfVectorizer(c)),
          ml_model |-> MultinomialNB(c), result |-> "ValueError"]
    ELSE [vectorizer |-> fit_transform(TfidfVectorizer(c)),
          ml_model |-> fit(MultinomialNB(c), df.y_train), result |-> "True"]

(***************************************************************************)
(* State                                                                   *)
(***************************************************************************)
\* the record of the last completed call
NoCall ==
    [op |-> "none", description |-> "", amount |-> NoAmount, method |-> "",
     result |-> "", remote |-> NoRemote, requests |-> 0, failed |-> FALSE,
     df |-> NoDataFrame,
     pre_vectorizer |-> None, pre_model |-> None,
     used_vectorizer |-> None, used_model |-> None]

\* locals of a ml classification call in progress
NoLocals == [via |-> "", description |-> "", v |-> None]

\* locals of a train_ml_model call in progress
NoTrainLocals == [df |-> NoDataFrame, pre_vectorizer |-> None, pre_model |-> None]

\* ExpenseCategorizer.__init__: the client exists iff OPENAI_API_KEY is set
Init ==
    /\ openai_client \in BOOLEAN
    /\ vectorizer = None
    /\ ml_model = None
    /\ calls = 0
    /\ succeeded = 0
    /\ last = NoCall
    /\ tpc = "idle"
    /\ tloc = NoTrainLocals
    /\ cpc = "idle"
    /\ cloc = NoLocals

Sequential == tpc = "idle" /\ cpc = "idle"

(***************************************************************************)
(* Calls, each run to completion                                           *)
(***************************************************************************)
RuleBasedCategorization ==
    /\ Sequential
    /\ \E description \in Descriptions :
        last' = [NoCall EXCEPT !.op = "rule_based_categorization",
                    !.description = description,
                    !.result = RuleResult[description],
                    !.pre_vectorizer = vectorizer, !.pre_model = ml_model]
    /\ UNCHANGED <<openai_client, vectorizer, ml_model, calls, succeeded, tpc, tloc, cpc, cloc>>

\* a second request after a failed one
openai_categorization_retry(description, amount, remote) ==
    IF ~openai_client
    THEN [result |-> RuleResult[description], remote |-> NoRemote,
          requests |-> 0, failed |-> FALSE]
    ELSE [result |-> openai_answer(description, remote), remote |-> remote,
          requests |-> IF remote.kind = "text" THEN 1 ELSE 2,
          failed |-> remote.kind # "text"]

\* openai_categorization as a function of the call and what the remote does:
\* [result, remote, requests, failed]; requests counts the calls of
\* chat.completions.create
openai_categorization(description, amount, remote) ==
    IF ~openai_client
    THEN [result |-> RuleResult[description], remote |-> NoRemote,
          requests |-> 0, failed |-> FALSE]
    ELSE [result |-> openai_answer(description, remote), remote |-> remote,
          requests |-> 1, failed |-> remote.kind # "text"]

OpenaiCategorization ==
    /\ Sequential
    /\ \E description \in Descriptions, amount \in Amounts :
       \E remote \in (IF openai_client THEN RemoteOutcomes ELSE {NoRemote}) :
        LET r == openai_categorization(description, amount, remote)
        IN  last' = [NoCall EXCEPT !.op = "openai_categorization",
                        !.description = description, !.amount = amount,
                        !.result = r.result, !.remote = r.remote,
                        !.requests = r.requests, !.failed = r.failed,
                        !.pre_vectorizer = vectorizer, !.pre_model = ml_model]
    /\ UNCHANGED <<openai_client, vectorizer, ml_model, calls, succeeded, tpc, tloc, cpc, cloc>>

MlCategorization ==
    /\ Sequential
    /\ \E description \in Descriptions :
       \E r \in ml_outcomes(description, vectorizer, ml_model) :
        last' = [NoCall EXCEPT !.op = "ml_categorization",
                    !.description = description,
                    !.result = r.result, !.failed = r.failed,
                    !.used_vectorizer = r.used_vectorizer, !.used_model = r.used_model,
                    !.pre_vectorizer = vectorizer, !.pre_model = ml_model]
    /\ UNCHANGED <<openai_client, vectorizer, ml_model, calls, succeeded, tpc, tloc, cpc, cloc>>

\* categorize_transaction: the set of possible [result, remote, requests,
\* failed, used_vectorizer, used_model]
categorize_transaction(description, amount, method, remote) ==
    IF method = "openai" /\ openai_client
    THEN LET r == openai_categorization(description, amount, remote)
         IN  {[result |-> r.result, remote |-> r.remote, requests |-> r.requests,
               failed |-> r.failed, used_vectorizer |-> None, used_model |-> None]}
    ELSE IF method = "ml" /\ Truthy(ml_model)
    THEN {[result |-> r.result, remote |-> NoRemote, requests |-> 0,
           failed |-> r.failed, used_vectorizer |-> r.used_vectorizer,
           used_model |-> r.used_model] : r \in ml_outcomes(description, vectorizer, ml_model)}
    ELSE {[result |-> RuleResult[description], remote |-> NoRemote,
           requests |-> 0, failed |-> FALSE,
           used_vectorizer |-> None, used_model |-> None]}

CategorizeTransaction ==
    /\ Sequential
    /\ \E description \in Descriptions, method \in Methods :
       \* amount is only passed on to openai_categorization
       \E amount \in (IF method = "openai" THEN Amounts ELSE {NoAmount}) :
       \E remote \in (IF method = "openai" /\ openai_client THEN RemoteOutcomes ELSE {NoRemote}) :
       \E r \in categorize_transaction(description, amount, method, remote) :
        last' = [NoCall EXCEPT !.op = "categorize_transaction",
                    !.description = description, !.amount = amount, !.method = method,
                    !.result = r.result, !.remote = r.remote,
                    !.requests = r.requests, !.failed = r.failed,
                    !.used_vectorizer = r.used_vectorizer, !.used_model = r.used_model,
                    !.pre_vectorizer = vectorizer, !.pre_model = ml_model]
    /\ UNCHANGED <<openai_client, vectorizer, ml_model, calls, succeeded, tpc, tloc, cpc, cloc>>

TrainMlModel ==
    /\ Sequential
    /\ calls < MaxTrainCalls
    /\ \E df \in DataFrames :
        LET r == train_outcome(df, vectorizer, ml_model, calls + 1)
        IN  /\ vectorizer' = r.vectorizer
            /\ ml_model' = r.ml_model
            /\ calls' = IF r.vectorizer = vectorizer THEN calls ELSE calls + 1
            /\ succeeded' = IF r.result = "True" THEN succeeded + 1 ELSE succeeded
            /\ last' = [NoCall EXCEPT !.op = "train_ml_model", !.df = df,
                           !.result = r.result,
                           !.pre_vectorizer = vectorizer, !.pre_model = ml_model]
    /\ UNCHANGED <<openai_client, tpc, tloc, cpc, cloc>>

Next ==
    \/ RuleBasedCategorization
    \/ OpenaiCategorization
    \/ MlCategorization
    \/ CategorizeTransaction
    \/ TrainMlModel

Spec == Init /\ [][Next]_vars

(***************************************************************************)
(* The same calls statement by statement: one train_ml_model call and one  *)
(* ml classification call in progress on the same categorizer, their       *)
(* attribute reads and writes interleaved                                  *)
(***************************************************************************)
TrainDone(result) ==
    [NoCall EXCEPT !.op = "train_ml_model", !.df = tloc.df, !.result = result,
        !.pre_vectorizer = tloc.pre_vectorizer, !.pre_model = tloc.pre_model]

\* lines 87-92: the size check and the column reads
TrainStart ==
    /\ tpc = "idle"
    /\ calls < MaxTrainCalls
    /\ \E df \in DataFrames :
        LET loc == [df |-> df, pre_vectorizer |-> vectorizer, pre_model |-> ml_model]
        IN  IF df.n < MinTrainRows \/ df.defect = "missing_column"
            THEN /\ last' = [NoCall EXCEPT !.op = "train_ml_model", !.df = df,
                                !.result = IF df.n < MinTrainRows THEN "False" ELSE "KeyError",
                                !.pre_vectorizer = vectorizer, !.pre_model = ml_model]
                 /\ UNCHANGED <<tpc, tloc>>
            ELSE /\ tpc' = "l95"
                 /\ tloc' = loc
                 /\ UNCHANGED last
    /\ UNCHANGED <<openai_client, vectorizer, ml_model, calls, succeeded, cpc, cloc>>

\* line 95: self.vectorizer = TfidfVectorizer(...)
TrainLine95 ==
    /\ tpc = "l95"
    /\ vectorizer' = TfidfVectorizer(calls + 1)
    /\ calls' = calls + 1
    /\ tpc' = "l96"
    /\ UNCHANGED <<openai_client, ml_model, succeeded, last, tloc, cpc, cloc>>

\* line 96: self.vectorizer.fit_transform(X)
TrainLine96 ==
    /\ tpc = "l96"
    /\ IF tloc.df.defect = "stop_words_only"
       THEN /\ last' = TrainDone("ValueError")
            /\ tpc' = "idle"
            /\ tloc' = NoTrainLocals
            /\ UNCHANGED vectorizer
       ELSE /\ vectorizer' = fit_transform(vectorizer)
            /\ tpc' = "l104"
            /\ UNCHANGED <<last, tloc>>
    /\ UNCHANGED <<openai_client, ml_model, calls, succeeded, cpc, cloc>>

\* line 104: self.ml_model = MultinomialNB()
TrainLine104 ==
    /\ tpc = "l104"
    /\ ml_model' = MultinomialNB(calls)
    /\ tpc' = "l105"
    /\ UNCHANGED <<openai_client, vectorizer, calls, succeeded, last, tloc, cpc, cloc>>

\* line 105: self.ml_model.fit(X_train, y_train)
TrainLine105 ==
    /\ tpc = "l105"
    /\ IF tloc.df.defect = "nan_label"
       THEN /\ last' = TrainDone("ValueError")
            /\ tpc' = "idle"
            /\ tloc' = NoTrainLocals
            /\ UNCHANGED ml_model
       ELSE /\ ml_model' = fit(ml_model, tloc.df.y_train)
            /\ tpc' = "l112"
            /\ UNCHANGED <<last, tloc>>
    /\ UNCHANGED <<openai_client, vectorizer, calls, succeeded, cpc, cloc>>

\* lines 108-112: evaluation on the held-out rows, return True
TrainLine112 ==
    /\ tpc = "l112"
    /\ succeeded' = succeeded + 1
    /\ last' = TrainDone("True")
    /\ tpc' = "idle"
    /\ tloc' = NoTrainLocals
    /\ UNCHANGED <<openai_client, vectorizer, ml_model, calls, cpc, cloc>>

ClassifyDone(result, failed, v, m) ==
    [NoCall EXCEPT !.op = cloc.via, !.description = cloc.description,
        !.method = IF cloc.via = "categorize_transaction" THEN "ml" ELSE "",
        !.result = result, !.failed = failed,
        !.used_vectorizer = v, !.used_model = m]

\* entry of ml_categorization(description) or of
\* categorize_transaction(description, method='ml')
ClassifyStart ==
    /\ cpc = "idle"
    /\ \E description \in Descriptions, via \in {"ml_categorization", "categorize_transaction"} :
        /\ cloc' = [via |-> via, description |-> description, v |-> None]
        /\ cpc' = IF via = "categorize_transaction" THEN "l135" ELSE "l116"
    /\ UNCHANGED <<openai_client, vectorizer, ml_model, calls, succeeded, last, tpc, tloc>>

\* line 135: elif method == 'ml' and self.ml_model
ClassifyLine135 ==
    /\ cpc = "l135"
    /\ IF Truthy(ml_model)
       THEN /\ cpc' = "l116"
            /\ UNCHANGED <<last, cloc>>
       ELSE /\ last' = ClassifyDone(RuleResult[cloc.description], FALSE, None, None)
            /\ cpc' = "idle"
            /\ cloc' = NoLocals
    /\ UNCHANGED <<openai_client, vectorizer, ml_model, calls, succeeded, tpc, tloc>>

\* line 116: if not self.ml_model or not self.vectorizer
ClassifyLine116 ==
    /\ cpc = "l116"
    /\ IF ~Truthy(ml_model) \/ ~Truthy(vectorizer)
       THEN /\ last' = ClassifyDone(RuleResult[cloc.description], FALSE, None, None)
            /\ cpc' = "idle"
            /\ cloc' = NoLocals
       ELSE /\ cpc' = "l121"
            /\ UNCHANGED <<last, cloc>>
    /\ UNCHANGED <<openai_client, vectorizer, ml_model, calls, succeeded, tpc, tloc>>

\* line 121: desc_vectorized = self.vectorizer.transform([description])
ClassifyLine121 ==
    /\ cpc = "l121"
    /\ IF transform_ok(vectorizer)
       THEN /\ cloc' = [cloc EXCEPT !.v = vectorizer]
            /\ cpc' = "l124"
            /\ UNCHANGED last
       ELSE /\ last' = ClassifyDone(RuleResult[cloc.description], TRUE, vectorizer, None)
            /\ cpc' = "idle"
            /\ cloc' = NoLocals
    /\ UNCHANGED <<openai_client, vectorizer, ml_model, calls, succeeded, tpc, tloc>>

\* lines 124-129: prediction = self.ml_model.predict(desc_vectorized)[0]
ClassifyLine124 ==
    /\ cpc = "l124"
    /\ \E p \in predict(ml_model, cloc.v) :
        last' = ClassifyDone(IF p = Raised THEN RuleResult[cloc.description] ELSE p,
                             p = Raised, cloc.v, ml_model)
    /\ cpc' = "idle"
    /\ cloc' = NoLocals
    /\ UNCHANGED <<openai_client, vectorizer, ml_model, calls, succeeded, tpc, tloc>>

NextConc ==
    \/ TrainStart
    \/ TrainLine95
    \/ TrainLine96
    \/ TrainLine104
    \/ TrainLine105
    \/ TrainLine112
    \/ ClassifyStart
    \/ ClassifyLine135
    \/ ClassifyLine116
    \/ ClassifyLine121
    \/ ClassifyLine124

SpecConc == Init /\ [][NextConc]_vars

(***************************************************************************)
(* batch_categorize: categorize_transaction applied to every row of a      *)
(* table (categorizer.py lines 140-150)                                    *)
(***************************************************************************)
\* rows of a table handed to batch_categorize
MaxBatchRows == 2

\* a description cell holding text
TextCell(text) == [type |-> "str", value |-> text]

\* a description cell that is empty in the file: read_csv makes it float nan,
\* and neither clean_amount_column nor clean_date_column drops the row
NanCell == [type |-> "float", value |-> "nan"]

BatchCells == {TextCell("Uber"), TextCell("atm bill"), NanCell}

BatchRows ==
    [date : {"2024-01-05"}, description : BatchCells, amount : {25}, category : {"Unsorted"}]

RECURSIVE TablesOver(_, _)
\* the tables of at most n rows of the given kind
TablesOver(rows, n) ==
    IF n = 0 THEN {<<>>}
    ELSE LET shorter == TablesOver(rows, n - 1)
         IN  shorter \cup {Append(t, r) : t \in {u \in shorter : Len(u) = n - 1}, r \in rows}

BatchTables == TablesOver(BatchRows, MaxBatchRows)

BatchMethods == {"rule", "ml", "openai"}

\* remote outcomes tried per row of a batch
BatchRemotes ==
    {[kind |-> "text", text |-> "Food"], [kind |-> "error", text |-> ""]}

\* `description.lower()` on a cell that is not a str
AttributeError == "AttributeError"

\* pandas refusing to store the frame that apply(axis=1) returns for a table
\* without rows into the single column 'category'
ValueError == "ValueError"

\* rule_based_categorization on a cell of the description column
rule_based_on_cell(cell) ==
    IF cell.type = "str" THEN RuleResult[cell.value] ELSE AttributeError

\* categorize_transaction(row['description'], row.get('amount'), method) on
\* one row: the set of categories it can return, AttributeError when it raises
categorize_cell(cell, amount, method, remote) ==
    IF cell.type = "str"
    THEN {r.result : r \in categorize_transaction(cell.value, amount, method, remote)}
    ELSE IF method = "openai" /\ openai_client
    THEN \* the prompt formats any value; only the except clause reads the text
         IF remote.kind = "text"
         THEN {openai_answer("", remote)}
         ELSE {rule_based_on_cell(cell)}
    ELSE \* transform([nan]) raises inside the try block; every path ends in
         \* rule_based_categorization
         {rule_based_on_cell(cell)}

RECURSIVE ApplyRows(_, _, _, _)
\* df.apply(lambda row: ..., axis=1) from row i on: the possible sequences
\* of per-row results
ApplyRows(df, method, remotes, i) ==
    IF i > Len(df) THEN {<<>>}
    ELSE {<<c>> \o rest :
            c \in categorize_cell(df[i].description, df[i].amount, method, remotes[i]),
            rest \in ApplyRows(df, method, remotes, i + 1)}

\* batch_categorize(df, method): the possible [raised, out]
batch_categorize(df, method, remotes) ==
    IF Len(df) = 0
    THEN \* apply probes the function on a row of nan to see whether it
         \* reduces; it does only if that call returns, which takes a remote
         \* answer, and older pandas probes with a row without columns
         {[raised |-> ValueError, out |-> <<>>]}
         \cup (IF method = "openai" /\ openai_client
               THEN {[raised |-> "none", out |-> <<>>]} ELSE {})
    ELSE {IF \E i \in 1..Len(df) : cats[i] = AttributeError
          THEN [raised |-> AttributeError, out |-> <<>>]
          ELSE [raised |-> "none",
                out |-> [i \in 1..Len(df) |-> [df[i] EXCEPT !.category = cats[i]]]] :
            cats \in ApplyRows(df, method, remotes, 1)}

\* the remote outcomes of the requests a batch issues, one per row
RemotesFor(df, method) ==
    IF method = "openai" /\ openai_client
    THEN [1..Len(df) -> BatchRemotes]
    ELSE {[i \in 1..Len(df) |-> NoRemote]}

BatchCategorize ==
    /\ Sequential
    /\ \E df \in BatchTables, method \in BatchMethods :
       \E remotes \in RemotesFor(df, method) :
       \E r \in batch_categorize(df, method, remotes) :
        last' = [op |-> "batch_categorize", df |-> df, method |-> method,
                 remotes |-> remotes, raised |-> r.raised, out |-> r.out,
                 \* df.copy() is what gets the new column
                 df_after |-> df]
    /\ UNCHANGED <<openai_client, vectorizer, ml_model, calls, succeeded, tpc, tloc, cpc, cloc>>

NextBatch ==
    \/ TrainMlModel
    \/ BatchCategorize

SpecBatch == Init /\ [][NextBatch]_vars

(***************************************************************************)
(* Ingestion (utils.py, class DataProcessor): parse_uploaded_file,         *)
(* standardize_columns, clean_amount_column, clean_date_column and         *)
(* validate_data, as the Upload Data page chains them (app.py 175-193)     *)
(***************************************************************************)
\* rows of an uploaded table
MaxIngestRows == 2

Digits == "0123456789"

IsDigit(c) == \E i \in 1..Len(Digits) : SubSeq(Digits, i, i) = c

DigitValue(c) == (CHOOSE i \in 1..Len(Digits) : SubSeq(Digits, i, i) = c) - 1

RECURSIVE KeepNumeric(_)
\* str.replace(r'[^\d.-]', '', regex=True): drop every character that is
\* not a digit, '.' or '-'
KeepNumeric(s) ==
    IF Len(s) = 0 THEN ""
    ELSE LET c == SubSeq(s, 1, 1)
             rest == KeepNumeric(SubSeq(s, 2, Len(s)))
         IN  IF IsDigit(c) \/ c = "." \/ c = "-" THEN c \o rest ELSE rest

RECURSIVE DigitsValue(_)
\* the number a string of digits denotes
DigitsValue(s) ==
    IF Len(s) = 0 THEN 0
    ELSE 10 * DigitsValue(SubSeq(s, 1, Len(s) - 1)) + DigitValue(SubSeq(s, Len(s), Len(s)))

AllDigits(s) == \A i \in 1..Len(s) : IsDigit(SubSeq(s, i, i))

\* amounts are held in hundredths; cells carry at most two decimals
NotANumber == [isnan |-> TRUE, cents |-> 0]

Number(c) == [isnan |-> FALSE, cents |-> c]

\* an unsigned decimal: digits, at most one '.', at least one digit
UnsignedNumeric(s) ==
    IF \E i \in 1..Len(s) : SubSeq(s, i, i) = "."
    THEN LET i == CHOOSE j \in 1..Len(s) : SubSeq(s, j, j) = "."
             whole == SubSeq(s, 1, i - 1)
             frac == SubSeq(s, i + 1, Len(s))
         IN  IF AllDigits(whole) /\ AllDigits(frac) /\ Len(whole) + Len(frac) > 0
                /\ Len(frac) <= 2
             THEN Number(100 * DigitsValue(whole)
                         + DigitsValue(frac) * (IF Len(frac) = 1 THEN 10 ELSE 1))
             ELSE NotANumber
    ELSE IF Len(s) > 0 /\ AllDigits(s) THEN Number(100 * DigitsValue(s))
    ELSE NotANumber

\* pd.to_numeric(text, errors='coerce') on text of digits, '.' and '-'
to_numeric(s) ==
    IF Len(s) > 0 /\ SubSeq(s, 1, 1) = "-"
    THEN LET u == UnsignedNumeric(SubSeq(s, 2, Len(s)))
         IN  IF u.isnan THEN u ELSE Number(0 - u.cents)
    ELSE UnsignedNumeric(s)

\* a cell of the amount column: text (object column) or a float
StrAmount(text) == [type |-> "str", text |-> text, isnan |-> FALSE, cents |-> 0]

FloatAmount(c) == [type |-> "float", text |-> "", isnan |-> FALSE, cents |-> c]

NanAmount == [type |-> "float", text |-> "", isnan |-> TRUE, cents |-> 0]

StrAmounts == {StrAmount("$1,234.56"), StrAmount("-50"), StrAmount("12.5.1")}

FloatAmounts == {FloatAmount(-1200000)}

\* a date cell as uploaded, and after pd.to_datetime
StrDate(text) == [type |-> "str", text |-> text, nat |-> FALSE, day |-> 0]

Timestamp(d) == [type |-> "datetime", text |-> "", nat |-> FALSE, day |-> d]

NaT == [type |-> "datetime", text |-> "", nat |-> TRUE, day |-> 0]

DateTexts == {"2024-02-29", "2023-02-29"}

DaysInMonth(y, m) ==
    IF m = 2 THEN (IF (y % 4 = 0 /\ y % 100 # 0) \/ y % 400 = 0 THEN 29 ELSE 28)
    ELSE IF m \in {4, 6, 9, 11} THEN 30 ELSE 31

\* pd.to_datetime(text, errors='coerce') on a YYYY-MM-DD text: the day as
\* yyyymmdd, NaT when the text is not a calendar date
to_datetime_text(s) ==
    IF /\ Len(s) = 10
       /\ SubSeq(s, 5, 5) = "-" /\ SubSeq(s, 8, 8) = "-"
       /\ AllDigits(SubSeq(s, 1, 4)) /\ AllDigits(SubSeq(s, 6, 7)) /\ AllDigits(SubSeq(s, 9, 10))
    THEN LET y == DigitsValue(SubSeq(s, 1, 4))
             m == DigitsValue(SubSeq(s, 6, 7))
             d == DigitsValue(SubSeq(s, 9, 10))
         IN  IF m \in 1..12 /\ d \in 1..DaysInMonth(y, m)
             THEN Timestamp(10000 * y + 100 * m + d)
             ELSE NaT
    ELSE NaT

\* the date texts of transaction frames read from the database
InsightDateTexts == {"2024-01-01", "2024-01-30", "2024-02-29"}

\* to_datetime_text, tabulated over the date texts in use
ParsedDate == [s \in DateTexts \cup InsightDateTexts |-> to_datetime_text(s)]

\* pd.to_datetime on a cell: a datetime stays what it is
to_datetime(cell) == IF cell.type = "datetime" THEN cell ELSE ParsedDate[cell.text]

IngestRows ==
    [date : {StrDate(t) : t \in DateTexts}, description : {"Uber"}, category : {"Unsorted"},
     amount : StrAmounts \cup FloatAmounts \cup {NanAmount}]

\* read_csv makes a column either all floats or, once one cell is not a
\* number, text with nan for the empty cells
OneDtype(t) ==
    \/ \A i \in 1..Len(t) : t[i].amount.type = "float"
    \/ \A i \in 1..Len(t) : t[i].amount.type = "str" \/ t[i].amount.isnan

IngestTables == {t \in TablesOver(IngestRows, MaxIngestRows) : OneDtype(t)}

\* df['amount'].dtype == 'object'
ObjectDtype(t) == \E i \in 1..Len(t) : t[i].amount.type = "str"

\* astype(str) on a cell of an object column
astype_str(cell) == IF cell.type = "str" THEN cell.text ELSE "nan"

\* lines 63-67 on one cell: the float the cell becomes
CoerceAmount(cell, object) ==
    IF object THEN to_numeric(KeepNumeric(astype_str(cell)))
    ELSE [isnan |-> cell.isnan, cents |-> cell.cents]

Abs(x) == IF x < 0 THEN 0 - x ELSE x

\* variant: the sign of the amount is kept
clean_amount_keep_sign(t) ==
    LET object == ObjectDtype(t)
        coerced == [i \in 1..Len(t) |-> CoerceAmount(t[i].amount, object)]
        kept == SelectSeq([i \in 1..Len(t) |-> i], LAMBDA i : ~coerced[i].isnan)
    IN  [k \in 1..Len(kept) |->
            [t[kept[k]] EXCEPT !.amount = FloatAmount(coerced[kept[k]].cents)]]

\* clean_amount_column(df)
clean_amount_column(t) ==
    LET object == ObjectDtype(t)
        coerced == [i \in 1..Len(t) |-> CoerceAmount(t[i].amount, object)]
        kept == SelectSeq([i \in 1..Len(t) |-> i], LAMBDA i : ~coerced[i].isnan)
    IN  [k \in 1..Len(kept) |->
            [t[kept[k]] EXCEPT !.amount = FloatAmount(Abs(coerced[kept[k]].cents))]]

\* clean_date_column(df)
clean_date_column(t) ==
    LET parsed == [i \in 1..Len(t) |-> to_datetime(t[i].date)]
        kept == SelectSeq([i \in 1..Len(t) |-> i], LAMBDA i : ~parsed[i].nat)
    IN  [k \in 1..Len(kept) |-> [t[kept[k]] EXCEPT !.date = parsed[kept[k]]]]

\* `if df['amount'].max() > 10000`, in hundredths
LargeAmount == 1000000

\* validate_data(df) on a table whose amounts are floats: the issues list.
\* min() and max() of a column without rows are nan and compare False.
\* The description and category cells of the model are never missing.
validate_data(t) ==
    (IF Len(t) = 0 THEN <<"No data rows found">> ELSE <<>>)
    \o (IF \E i \in 1..Len(t) : t[i].amount.cents < 0
        THEN <<"Negative amounts found">> ELSE <<>>)
    \o (IF \E i \in 1..Len(t) : t[i].amount.cents > LargeAmount
        THEN <<"Very large amounts detected - please verify">> ELSE <<>>)

\* headers an uploaded file can carry
ColumnNames == {"Date", " AMOUNT ", "Transaction Description", "category", "Notes"}

\* column_mapping, applied by df.rename
column_mapping(name) == IF name = "transaction description" THEN "description" ELSE name

\* df.columns.str.lower().str.strip(), then rename
StandardName == [c \in ColumnNames |-> column_mapping(Strip(Lower(c)))]

required_columns == <<"date", "description", "category", "amount">>

\* standardize_columns(df) by the headers of df: the exception it raises, if
\* any, and the required columns the message lists
standardize_columns(headers) ==
    LET columns == {StandardName[c] : c \in headers}
        missing_cols == SelectSeq(required_columns, LAMBDA col : col \notin columns)
    IN  [raised |-> IF missing_cols # <<>> THEN ValueError ELSE "none",
         missing |-> missing_cols]

FileTypes == {"csv", "xlsx", "txt"}

\* an uploaded file: its extension, its headers and its rows
SampleTable ==
    <<[date |-> StrDate("2024-02-29"), description |-> "Uber", category |-> "Unsorted",
       amount |-> StrAmount("-50")]>>

UploadedFiles ==
    [type : FileTypes, headers : SUBSET ColumnNames, rows : {SampleTable}]
    \cup [type : {"csv"}, headers : {ColumnNames}, rows : IngestTables]

\* parse_uploaded_file(uploaded_file): what it returns (a table or None),
\* what it raises and what st.error shows
parse_uploaded_file(file) ==
    IF file.type \notin {"csv", "xlsx", "xls"}
    THEN [returned |-> "None", raised |-> "none", df |-> <<>>,
          shown |-> "Unsupported file format", missing |-> <<>>]
    ELSE LET s == standardize_columns(file.headers)
         IN  IF s.raised # "none"
             THEN \* except Exception as e: st.error(...); return None
                  [returned |-> "None", raised |-> "none", df |-> <<>>,
                   shown |-> "Error reading file", missing |-> s.missing]
             ELSE [returned |-> "df", raised |-> "none", df |-> file.rows,
                   shown |-> "", missing |-> <<>>]

\* the records of a direct call of standardize_columns, over the files
StandardizeOutcomes ==
    {LET s == standardize_columns(file.headers)
     IN  [op |-> "standardize_columns", file |-> file,
          returned |-> IF s.raised = "none" THEN "df" ELSE "",
          raised |-> s.raised, missing |-> s.missing] : file \in UploadedFiles}

\* the records of the Upload Data page run on a file, over the files
UploadOutcomes ==
    {LET parsed == parse_uploaded_file(file)
            after_amount == clean_amount_column(parsed.df)
            after_date == clean_date_column(after_amount)
        IN  [op |-> "upload_page", file |-> file,
             returned |-> parsed.returned, raised |-> parsed.raised,
             shown |-> parsed.shown, missing |-> parsed.missing,
             parsed |-> parsed.df,
             after_amount |-> after_amount,
             after_date |-> after_date,
             issues |-> IF parsed.returned = "df"
                        THEN validate_data(after_date) ELSE <<>>] : file \in UploadedFiles}

\* a direct call of DataProcessor.standardize_columns
StandardizeColumns ==
    /\ Sequential
    /\ last' \in StandardizeOutcomes
    /\ UNCHANGED <<openai_client, vectorizer, ml_model, calls, succeeded, tpc, tloc, cpc, cloc>>

\* the Upload Data page on one uploaded file: parse, clean, validate
UploadPage ==
    /\ Sequential
    /\ last' \in UploadOutcomes
    /\ UNCHANGED <<openai_client, vectorizer, ml_model, calls, succeeded, tpc, tloc, cpc, cloc>>

NextIngest ==
    \/ StandardizeColumns
    \/ UploadPage

SpecIngest == Init /\ [][NextIngest]_vars

(***************************************************************************)
(* Analytics (insights.py).  A transaction frame is a sequence of rows     *)
(* date, description, amount, category; the amount is in whole currency    *)
(* units and arithmetic is exact.  The date column is either text          *)
(* (YYYY-MM-DD, as read from the database by period) or datetime; a caller *)
(* starts with a text column and holds a datetime column once a call has   *)
(* converted it.                                                           *)
(***************************************************************************)
MaxAnomalyRows == 6

MaxRecurringRows == 5

MaxInsightRows == 3

Transaction(date, description, amount, category) ==
    [date |-> date, description |-> description, amount |-> amount, category |-> category]


\* df['date'] = pd.to_datetime(df['date']): the frame with the column replaced
with_datetime_dates(df) == [i \in DOMAIN df |-> [df[i] EXCEPT !.date = to_datetime(df[i].date)]]

RECURSIVE amount_sum(_, _)
\* df.loc[rows, 'amount'].sum()
amount_sum(df, rows) ==
    IF rows = {} THEN 0
    ELSE LET i == CHOOSE i \in rows : TRUE
         IN  df[i].amount + amount_sum(df, rows \ {i})

\* num / den in hundredths, rounded to the nearest as the :.2f format does
Round2(num, den) == (200 * num + den) \div (2 * den)

\* the record of one analytics call: the frame passed, what came back and
\* what the caller's frame holds afterwards
Outcome(op, df, result) ==
    [op |-> op, df |-> df, raised |-> "none", out |-> result.out, df_after |-> result.df_after]

(* detect_spending_anomalies *)
AnomalyAmounts == {10, 200, 1000}

AnomalyRow(a) == Transaction(StrDate("2024-01-01"), "Coffee", a, "Food")

\* four small amounts and one of 10000
LargeOutlier == [i \in 1..5 |-> AnomalyRow(IF i = 5 THEN 10000 ELSE 10)]

AnomalyTables ==
    TablesOver({AnomalyRow(a) : a \in AnomalyAmounts}, MaxAnomalyRows) \cup {LargeOutlier}

RECURSIVE GCD(_, _)
GCD(a, b) == IF b = 0 THEN a ELSE GCD(b, a % b)

RECURSIVE common_unit(_, _)
\* a common divisor of the first i deviations (mean and std scale alike)
common_unit(dev, i) == IF i = 0 THEN 0 ELSE GCD(Abs(dev[i]), common_unit(dev, i - 1))

RECURSIVE sum_squares(_, _, _)
sum_squares(dev, unit, i) ==
    IF i = 0 THEN 0
    ELSE (dev[i] \div unit) * (dev[i] \div unit) + sum_squares(dev, unit, i - 1)

\* population deviation (ddof = 0) in place of the sample deviation
above_threshold_population(n, d, squares) ==
    n >= 2 /\ d > 0 /\ n * d * d > 4 * squares

\* one deviation in place of two
above_threshold_one_sigma(n, d, squares) ==
    n >= 2 /\ d > 0 /\ (n - 1) * d * d > squares

\* the deviation left out of the threshold
above_threshold_mean_only(n, d, squares) ==
    n >= 2 /\ d > 0

\* amount > mean + 2 * std for a row whose amount is d/n above the mean,
\* squares the sum of the squared n-fold deviations: std() is the sample
\* deviation sqrt(squares / (n * n * (n - 1))), NaN below two rows, and a
\* comparison with NaN is False
above_threshold(n, d, squares) ==
    n >= 2 /\ d > 0 /\ (n - 1) * d * d > 4 * squares

detect_spending_anomalies(df) ==
    LET converted == with_datetime_dates(df)
        n == Len(df)
        total == amount_sum(df, DOMAIN df)
        dev == [i \in DOMAIN df |-> n * df[i].amount - total]
        unit == common_unit(dev, n)
        squares == IF unit = 0 THEN 0 ELSE sum_squares(dev, unit, n)
        flagged == {i \in DOMAIN df : unit > 0 /\ above_threshold(n, dev[i] \div unit, squares)}
        kept == SelectSeq([i \in DOMAIN df |-> i], LAMBDA i : i \in flagged)
    IN  [out |-> [k \in DOMAIN kept |-> converted[kept[k]]], df_after |-> converted]

DetectSpendingAnomalies ==
    /\ Sequential
    /\ last' = Outcome("detect_spending_anomalies", last.df_after,
                       detect_spending_anomalies(last.df_after))
    /\ UNCHANGED <<openai_client, vectorizer, ml_model, calls, succeeded, tpc, tloc, cpc, cloc>>

(* detect_recurring_transactions *)
RecurringRows ==
    {Transaction(StrDate("2024-01-01"), "Coffee", 5, "Food"),
     Transaction(StrDate("2024-01-01"), "Coffee", 7, "Food"),
     Transaction(StrDate("2024-01-01"), "Rent", 5, "Food")}

RecurringTables == TablesOver(RecurringRows, MaxRecurringRows)

RECURSIVE groupby_size(_, _)
\* df.groupby(['description', 'amount']).size() over the first i rows
groupby_size(df, i) ==
    IF i = 0 THEN [key \in {} |-> 0]
    ELSE LET sizes == groupby_size(df, i - 1)
             key == <<df[i].description, df[i].amount>>
         IN  [k \in DOMAIN sizes \cup {key} |->
                 IF k = key THEN (IF k \in DOMAIN sizes THEN sizes[k] + 1 ELSE 1)
                 ELSE sizes[k]]

\* groups kept from four occurrences on
recurring_over_three(sizes) == [key \in {k \in DOMAIN sizes : sizes[k] > 3} |-> sizes[key]]

\* recurring[recurring > 2]
recurring_over_two(sizes) == [key \in {k \in DOMAIN sizes : sizes[k] > 2} |-> sizes[key]]

detect_recurring_transactions(df) ==
    [out |-> recurring_over_two(groupby_size(df, Len(df))), df_after |-> df]

DetectRecurringTransactions ==
    /\ Sequential
    /\ last' = Outcome("detect_recurring_transactions", last.df_after,
                       detect_recurring_transactions(last.df_after))
    /\ UNCHANGED <<openai_client, vectorizer, ml_model, calls, succeeded, tpc, tloc, cpc, cloc>>

(* generate_basic_insights, prepare_spending_summary, generate_savings_suggestions *)
InsightRows ==
    {Transaction(StrDate("2024-01-01"), "Coffee", 150, "Transport"),
     Transaction(StrDate("2024-02-29"), "Coffee", 150, "Food"),
     Transaction(StrDate("2024-02-29"), "Rent", 300, "Food"),
     Transaction(StrDate("2024-01-30"), "Rent", 100, "Shopping"),
     Transaction(StrDate("2024-02-29"), "Movie", 120, "Entertainment")}

InsightTables == TablesOver(InsightRows, MaxInsightRows)

\* the order groupby('category') gives its groups: sorted by label
SortedCategories == <<"Entertainment", "Food", "Shopping", "Transport">>

\* df.groupby('category')['amount'].sum()
groupby_sum(df) ==
    [c \in {df[i].category : i \in DOMAIN df} |->
        amount_sum(df, {i \in DOMAIN df : df[i].category = c})]

\* Series.idxmax() of the sums: the first label, in group order, holding the maximum
idxmax(sums) ==
    LET present == SelectSeq(SortedCategories, LAMBDA c : c \in DOMAIN sums)
        first == CHOOSE k \in DOMAIN present :
                    /\ \A j \in DOMAIN present : sums[present[j]] <= sums[present[k]]
                    /\ \A j \in 1..(k - 1) : sums[present[j]] < sums[present[k]]
    IN  present[first]

\* df['description'].value_counts()
value_counts(df) ==
    [d \in {df[i].description : i \in DOMAIN df} |->
        Cardinality({i \in DOMAIN df : df[i].description = d})]

\* the texts generate_basic_insights can return, as the numbers they print
\* (hundredths where the text prints two decimals); value_counts() leaves the
\* order of equally frequent descriptions open
generate_basic_insights(df) ==
    IF Len(df) = 0
    THEN {[text |-> "No transaction data available for analysis.",
           total |-> 0, num_transactions |-> 0, avg_transaction |-> 0,
           top_category |-> "", top_amount |-> 0,
           most_frequent |-> "", frequency |-> 0,
           food_savings |-> 0, food_spending |-> 0]}
    ELSE LET total == amount_sum(df, DOMAIN df)
             sums == groupby_sum(df)
             counts == value_counts(df)
             food_spending == amount_sum(df, {i \in DOMAIN df : df[i].category = "Food"})
         IN  {[text |-> "SPENDING SUMMARY",
               total |-> total, num_transactions |-> Len(df),
               avg_transaction |-> Round2(total, Len(df)),
               top_category |-> idxmax(sums), top_amount |-> sums[idxmax(sums)],
               most_frequent |-> d, frequency |-> counts[d],
               food_savings |-> IF food_spending > 0 THEN 10 * food_spending ELSE 0,
               food_spending |-> food_spending] :
                 d \in {d \in DOMAIN counts : \A e \in DOMAIN counts : counts[e] <= counts[d]}}

GenerateBasicInsights ==
    /\ Sequential
    /\ \E text \in generate_basic_insights(last.df_after) :
          last' = Outcome("generate_basic_insights", last.df_after,
                          [out |-> text, df_after |-> last.df_after])
    /\ UNCHANGED <<openai_client, vectorizer, ml_model, calls, succeeded, tpc, tloc, cpc, cloc>>

RECURSIVE DaysBeforeMonth(_, _)
DaysBeforeMonth(y, m) == IF m = 1 THEN 0 ELSE DaysBeforeMonth(y, m - 1) + DaysInMonth(y, m - 1)

\* the day number of a yyyymmdd day, so that timedelta(days=30) is 30
Ordinal(day) ==
    LET y == day \div 10000
        m == (day \div 100) % 100
        d == day % 100
    IN  365 * (y - 1) + ((y - 1) \div 4) - ((y - 1) \div 100) + ((y - 1) \div 400)
        + DaysBeforeMonth(y, m) + d

SummaryWindow == 30

\* the numbers prepare_spending_summary prints and the frame it leaves:
\* line 63 stores the converted dates in the frame it was given
prepare_spending_summary(df) ==
    LET total_spending == amount_sum(df, DOMAIN df)
        unique == {df[i].date : i \in DOMAIN df}
        converted == with_datetime_dates(df)
        days == [i \in DOMAIN df |-> Ordinal(converted[i].date.day)]
        recent == {i \in DOMAIN df : \A j \in DOMAIN df : days[i] > days[j] - SummaryWindow}
    IN  [out |-> [total_spending |-> total_spending,
                  category_spending |-> groupby_sum(df),
                  avg_daily |-> IF Len(df) > 0
                                THEN Round2(total_spending, Cardinality(unique)) ELSE 0,
                  recent_spending |-> amount_sum(df, recent),
                  older_spending |-> amount_sum(df, DOMAIN df \ recent)],
         df_after |-> converted]

PrepareSpendingSummary ==
    /\ Sequential
    /\ last' = Outcome("prepare_spending_summary", last.df_after,
                       prepare_spending_summary(last.df_after))
    /\ UNCHANGED <<openai_client, vectorizer, ml_model, calls, succeeded, tpc, tloc, cpc, cloc>>

RECURSIVE sort_values(_, _)
\* the orders sort_values(ascending=False) can give the labels left to place
sort_values(sums, left) ==
    IF left = {} THEN {<<>>}
    ELSE UNION {{<<c>> \o rest : rest \in sort_values(sums, left \ {c})} :
                  c \in {c \in left : \A d \in left : sums[d] <= sums[c]}}

SignificantSpending == 100

TopCategories == 3

\* reductions in hundredths: amount * 0.15
generate_savings_suggestions(df) ==
    LET sums == groupby_sum(df)
    IN  {LET head == SubSeq(ranked, 1, IF Len(ranked) < TopCategories THEN Len(ranked) ELSE TopCategories)
             significant == SelectSeq(head, LAMBDA c : sums[c] > SignificantSpending)
         IN  [k \in DOMAIN significant |->
                 [category |-> significant[k], current_spending |-> sums[significant[k]],
                  suggested_reduction |-> 15 * sums[significant[k]], percentage |-> 15]] :
           ranked \in sort_values(sums, DOMAIN sums)}

GenerateSavingsSuggestions ==
    /\ Sequential
    /\ \E suggestions \in generate_savings_suggestions(last.df_after) :
          last' = Outcome("generate_savings_suggestions", last.df_after,
                          [out |-> suggestions, df_after |-> last.df_after])
    /\ UNCHANGED <<openai_client, vectorizer, ml_model, calls, succeeded, tpc, tloc, cpc, cloc>>

NextInsights ==
    \/ GenerateBasicInsights
    \/ PrepareSpendingSummary
    \/ GenerateSavingsSuggestions
    \/ DetectSpendingAnomalies
    \/ DetectRecurringTransactions

\* the frames a caller may hold before its first analytics call
InsightFrames == AnomalyTables \cup RecurringTables \cup InsightTables

\* the caller holds a frame (df_after) and passes it to every call it makes
InitInsights ==
    /\ openai_client = FALSE
    /\ vectorizer = None
    /\ ml_model = None
    /\ calls = 0
    /\ succeeded = 0
    /\ tpc = "idle"
    /\ tloc = NoTrainLocals
    /\ cpc = "idle"
    /\ cloc = NoLocals
    /\ \E df \in InsightFrames :
          last = [op |-> "frame", df |-> df, raised |-> "none", out |-> <<>>, df_after |-> df]

SpecInsights == InitInsights /\ [][NextInsights]_vars

(***************************************************************************)
(* Properties                                                              *)
(***************************************************************************)
\* the description of the last call, lower-cased
LowerOf == [d \in Descriptions |-> Lower(d)]

\* positions in the category order of the categories one of whose patterns
\* occurs in the lower-cased description
Hits ==
    [d \in Descriptions |->
        {i \in 1..Len(category_patterns) :
            \E j \in 1..Len(category_patterns[i].patterns) :
                Contains(category_patterns[i].patterns[j], LowerOf[d])}]

MlCall ==
    \/ last.op = "ml_categorization"
    \/ last.op = "categorize_transaction" /\ last.method = "ml"

RemoteFailed == last.remote.kind \in {"error", "no_choices", "no_content"}

\* C1: categorize_transaction returns a member of the fixed category list,
\* for every description, amount and strategy, in every categorizer state
\* (trained on any labels or not, client or not, any remote outcome).
C1_CategorizeReturnsListedCategory ==
    last.op = "categorize_transaction" => last.result \in CategorySet

\* C2: with a client configured, a remote answer that after trimming is not
\* one of the allowed categories makes openai_categorization return what
\* rule_based_categorization returns for the description.
C2_InvalidAnswerFallsBackToRule ==
    (/\ last.op = "openai_categorization"
     /\ last.remote.kind = "text"
     /\ Strip(last.remote.text) \notin CategorySet)
    => last.result = RuleResult[last.description]

\* C3: with a client configured, a remote request that fails (error raised
\* by the request, no choice, no content) makes openai_categorization return
\* a category, namely the one rule_based_categorization returns.
C3_RemoteFailureFallsBackToRule ==
    (last.op = "openai_categorization" /\ RemoteFailed)
    => /\ last.result \in CategorySet
       /\ last.result = RuleResult[last.description]

C3_Witness ==
    /\ last.op = "openai_categorization"
    /\ RemoteFailed
    /\ last.requests = 1
    /\ last.result = "Transport"

\* C4: once train_ml_model has run on at least 20 rows, ml_categorization
\* returns a label (no exception reaches the caller), and when the transform
\* or the prediction fails it returns what rule_based_categorization returns.
C4_MlNeverRaises ==
    (last.op = "ml_categorization" /\ calls > 0)
    => /\ last.result # Raised
       /\ last.result \in CategorySet \cup TrainLabels
       /\ last.failed => last.result = RuleResult[last.description]

C4_Witness ==
    /\ last.op = "ml_categorization"
    /\ calls > 0
    /\ last.failed
    /\ last.used_vectorizer # None
    /\ last.result = "Transport"

C6_RefusedTrainingLeavesSlot ==
    (last.op = "train_ml_model" /\ last.df.n < 20)
    => /\ last.result = "False"
       /\ vectorizer = last.pre_vectorizer
       /\ ml_model = last.pre_model

C6_Witness ==
    /\ last.op = "train_ml_model"
    /\ last.df.n = 19
    /\ last.result = "False"
    /\ ml_model.fitted
    /\ vectorizer.fitted

\* the slot holds nothing, or the fitted pair of one training call
SlotWhole ==
    \/ vectorizer = None /\ ml_model = None
    \/ /\ vectorizer.fitted /\ ml_model.fitted
       /\ vectorizer.call = ml_model.call

\* C7: the slot is never partially updated: vectorizer and ml_model are both
\* absent or the fitted pair of one successful training call, and a training
\* call that does not return True leaves the slot as it was.
C7_SlotNeverPartial ==
    /\ SlotWhole
    /\ (last.op = "train_ml_model" /\ last.result # "True")
       => (vectorizer = last.pre_vectorizer /\ ml_model = last.pre_model)

\* C8: a ml classification that interleaves with a training call transforms
\* and predicts with a vectorizer and a model of the same training call,
\* both fitted.
C8_ClassifyUsesOnePair ==
    (MlCall /\ last.used_model # None)
    => /\ last.used_vectorizer.call = last.used_model.call
       /\ last.used_vectorizer.fitted
       /\ last.used_model.fitted

\* C9 as stated: a description containing a known keyword, in any letter
\* case and with any text around it, gets the category of that keyword.
C9_KeywordDecides ==
    last.op = "rule_based_categorization"
    => \A i \in Hits[last.description] : last.result = category_patterns[i].category

\* C9 amended: a description containing a known keyword, in any letter
\* case and with any text around it, gets the category of that keyword
\* unless a pattern of a category earlier in the order also occurs; then it
\* gets one of those earlier categories.
C9_KeywordDecidesUnlessEarlier ==
    last.op = "rule_based_categorization"
    => \A i \in Hits[last.description] :
          \/ last.result = category_patterns[i].category
          \/ \E k \in Hits[last.description] :
                k < i /\ last.result = category_patterns[k].category

C9_Witness ==
    /\ last.op = "rule_based_categorization"
    /\ last.description = "Uber bill"
    /\ last.result = "Transport"

\* C10: rule_based_categorization returns the first category in the order
\* Food .. Education one of whose patterns occurs in the lower-cased
\* description, 'Others' exactly when none occurs, and the same category for
\* the same description in every categorizer state.
C10_FirstMatchWins ==
    last.op = "rule_based_categorization"
    => LET hits == Hits[last.description]
       IN  /\ hits # {} =>
                last.result = category_patterns[CHOOSE i \in hits : \A k \in hits : i <= k].category
           /\ (last.result = "Others") <=> (hits = {})

C10_Witness ==
    /\ last.op = "rule_based_categorization"
    /\ last.description = "business bill"
    /\ Cardinality(Hits[last.description]) = 2
    /\ last.result = "Transport"
    /\ ml_model.fitted

\* C11: batch_categorize returns a category for every row and never raises,
\* under every strategy, for every table that passed cleaning, rows whose
\* description cell is not text included.
C11_BatchNeverRaises ==
    (last.op = "batch_categorize" /\ Len(last.df) > 0)
    => /\ last.raised = "none"
       /\ Len(last.out) = Len(last.df)
       /\ \A i \in 1..Len(last.out) : last.out[i].category \in CategorySet \cup TrainLabels

\* C12: batch_categorize returns a new table with the rows of df in the same
\* order, every field but category as in df, row i's category being what
\* categorize_transaction returns for row i, and leaves df unchanged.
C12_BatchPreservesRows ==
    last.op = "batch_categorize"
    => /\ last.raised = "none"
       /\ Len(last.out) = Len(last.df)
       /\ \A i \in 1..Len(last.df) :
            /\ last.out[i].date = last.df[i].date
            /\ last.out[i].description = last.df[i].description
            /\ last.out[i].amount = last.df[i].amount
            /\ last.out[i].category \in
                 categorize_cell(last.df[i].description, last.df[i].amount,
                                 last.method, last.remotes[i])
       /\ last.df_after = last.df

\* the required fields no header of the last file resolves to
MissingFields ==
    {required_columns[k] : k \in 1..Len(required_columns)}
    \ {StandardName[c] : c \in last.file.headers}

\* C13: when the table lacks a column resolvable to a required field,
\* normalization fails with an error naming every missing field, and the
\* error reaches the caller of parse_uploaded_file / standardize_columns.
C13_SchemaErrorReachesCaller ==
    (/\ last.op \in {"standardize_columns", "upload_page"}
     /\ last.file.type \in {"csv", "xlsx"}
     /\ MissingFields # {})
    => /\ last.raised = ValueError
       /\ {last.missing[k] : k \in 1..Len(last.missing)} = MissingFields

\* the number an uploaded amount cell stands for once every character other
\* than digits, '.' and '-' is removed
StrippedAmount(cell) ==
    IF cell.type = "str" THEN to_numeric(KeepNumeric(cell.text))
    ELSE [isnan |-> cell.isnan, cents |-> cell.cents]

\* the rows of the parsed table whose amount and date both parse
ParsingRows ==
    SelectSeq([i \in 1..Len(last.parsed) |-> i],
              LAMBDA i : /\ ~StrippedAmount(last.parsed[i].amount).isnan
                         /\ ~to_datetime(last.parsed[i].date).nat)

\* C14: after clean_amount_column and clean_date_column every row has a
\* numeric amount >= 0 and a valid date; the rows kept are exactly the rows
\* whose stripped amount and whose date parse, in input order, the amount
\* replaced by its absolute value ("$1,234.56" becomes 1234.56).
C14_CleanedRows ==
    (last.op = "upload_page" /\ last.returned = "df")
    => /\ \A i \in 1..Len(last.after_date) :
            /\ last.after_date[i].amount.type = "float"
            /\ ~last.after_date[i].amount.isnan
            /\ last.after_date[i].amount.cents >= 0
            /\ last.after_date[i].date.type = "datetime"
            /\ ~last.after_date[i].date.nat
       /\ Len(last.after_date) = Len(ParsingRows)
       /\ \A k \in 1..Len(ParsingRows) :
            LET in == last.parsed[ParsingRows[k]]
                out == last.after_date[k]
                value == StrippedAmount(in.amount).cents
            IN  /\ out.amount.cents = IF value < 0 THEN 0 - value ELSE value
                /\ out.date = to_datetime(in.date)
                /\ out.description = in.description
                /\ out.category = in.category
                /\ in.amount.text = "$1,234.56" => out.amount.cents = 123456

C14_Witness ==
    /\ last.op = "upload_page"
    /\ last.returned = "df"
    /\ Len(last.parsed) = 2
    /\ last.parsed[1].amount.text = "12.5.1"
    /\ last.parsed[2].amount.text = "-50"
    /\ Len(last.after_date) = 1
    /\ last.after_date[1].amount.cents = 5000

\* C15: the warnings of the ingestion pipeline include the negative-amount
\* warning whenever an input amount was negative before correction, and
\* validate_data returns a list of warnings for every cleaned table.
C15_NegativeAmountWarned ==
    (/\ last.op = "upload_page"
     /\ last.returned = "df"
     /\ \E i \in 1..Len(last.parsed) :
            LET a == StrippedAmount(last.parsed[i].amount)
            IN  ~a.isnan /\ a.cents < 0)
    => \E k \in 1..Len(last.issues) : last.issues[k] = "Negative amounts found"

\* C16: the number of rows cleaning dropped is available to the caller:
\* what the cleaning steps return determines it.
C16_DroppedCountAvailable ==
    (last.op = "upload_page" /\ last.returned = "df")
    => \A o \in UploadOutcomes :
          (o.returned = "df" /\ o.after_date = last.after_date)
          => Len(o.parsed) - Len(o.after_date) = Len(last.parsed) - Len(last.after_date)

\* the amounts of the frame passed to the last call, in order
PassedAmounts == [i \in DOMAIN last.df |-> last.df[i].amount]

\* the rows of the frame passed to the last call whose amount a exceeds
\* mean + 2 * sample deviation, from the sums S of the amounts and S2 of
\* their squares: (n - 1) * (n*a - S)^2 > 4 * n * (n*S2 - S^2) with n*a > S
\* (amounts taken in their largest common unit, which leaves the comparison
\* as it is)
AboveTwoSigma ==
    LET n == Len(last.df)
        unit == common_unit(PassedAmounts, n)
        scaled == [i \in DOMAIN last.df |-> [amount |-> last.df[i].amount \div unit]]
        squared == [i \in DOMAIN last.df |-> [amount |-> scaled[i].amount * scaled[i].amount]]
        S == amount_sum(scaled, DOMAIN scaled)
        S2 == amount_sum(squared, DOMAIN squared)
    IN  {i \in DOMAIN last.df :
            /\ n >= 2
            /\ unit > 0
            /\ n * scaled[i].amount > S
            /\ (n - 1) * (n * scaled[i].amount - S) * (n * scaled[i].amount - S)
                 > 4 * n * (n * S2 - S * S)}

\* C17: detect_spending_anomalies returns exactly the transactions of the
\* supplied set whose amount is strictly greater than mean + 2 * sample
\* standard deviation, both taken over the whole supplied set; an amount
\* equal to the threshold is not returned.
C17_AnomaliesAboveTwoSigma ==
    last.op = "detect_spending_anomalies"
    => LET kept == SelectSeq([i \in DOMAIN last.df |-> i], LAMBDA i : i \in AboveTwoSigma)
       IN  /\ Len(last.out) = Len(kept)
           /\ \A k \in DOMAIN kept :
                /\ last.out[k].description = last.df[kept[k]].description
                /\ last.out[k].amount = last.df[kept[k]].amount
                /\ last.out[k].category = last.df[kept[k]].category
                /\ last.out[k].date = to_datetime(last.df[kept[k]].date)

C17_Witness ==
    /\ last.op = "detect_spending_anomalies"
    /\ PassedAmounts = <<10, 10, 1000, 10, 10, 10>>
    /\ Len(last.out) = 1
    /\ last.out[1].amount = 1000

\* C18: given the amounts [10,10,10,10,1000] anomaly detection returns
\* nothing; given [10,10,10,10,10000] it returns the 10000 transaction and
\* only it.
C18_WorkedExamples ==
    last.op = "detect_spending_anomalies"
    => /\ PassedAmounts = <<10, 10, 10, 10, 1000>> => Len(last.out) = 0
       /\ PassedAmounts = <<10, 10, 10, 10, 10000>>
            => Len(last.out) = 1 /\ last.out[1].amount = 10000

\* C18 as amended: given [10,10,10,10,1000] and given [10,10,10,10,10000]
\* anomaly detection returns nothing.
C18_WorkedExamplesReturnNothing ==
    (/\ last.op = "detect_spending_anomalies"
     /\ PassedAmounts \in {<<10, 10, 10, 10, 1000>>, <<10, 10, 10, 10, 10000>>})
    => Len(last.out) = 0

C18_Witness ==
    /\ last.op = "detect_spending_anomalies"
    /\ PassedAmounts = <<10, 10, 10, 10, 10000>>
    /\ Len(last.out) = 0

\* the rows of the frame passed to the last call with this description and amount
Occurrences(description, amount) ==
    {i \in DOMAIN last.df :
        last.df[i].description = description /\ last.df[i].amount = amount}

\* C19: detect_recurring_transactions returns exactly the (description,
\* amount) pairs that occur at least 3 times, each with its number of
\* occurrences: a pair occurring 3 times is returned, one occurring twice is
\* not, and one description with two amounts makes two groups.
C19_RecurringPairs ==
    last.op = "detect_recurring_transactions"
    => /\ DOMAIN last.out =
            {<<last.df[i].description, last.df[i].amount>> : i \in
                {i \in DOMAIN last.df :
                    Cardinality(Occurrences(last.df[i].description, last.df[i].amount)) >= 3}}
       /\ \A key \in DOMAIN last.out :
            last.out[key] = Cardinality(Occurrences(key[1], key[2]))

C19_Witness ==
    /\ last.op = "detect_recurring_transactions"
    /\ Cardinality(Occurrences("Coffee", 5)) = 3
    /\ Cardinality(Occurrences("Coffee", 7)) = 2
    /\ DOMAIN last.out = {<<"Coffee", 5>>}
    /\ last.out[<<"Coffee", 5>>] = 3

\* C20: every analytics operation is read-only: after the call the frame
\* passed in equals, field by field and type by type, what it was before.
C20_AnalyticsReadOnly ==
    last.op \in {"generate_basic_insights", "prepare_spending_summary",
                 "generate_savings_suggestions", "detect_spending_anomalies",
                 "detect_recurring_transactions"}
    => last.df_after = last.df

\* the summed amount of a category in the frame passed to the last call
CategoryTotal(c) ==
    amount_sum(last.df, {i \in DOMAIN last.df : last.df[i].category = c})

\* the row at which a category first occurs in the frame passed to the last call
FirstOccurrence(c) ==
    CHOOSE i \in DOMAIN last.df :
        /\ last.df[i].category = c
        /\ \A j \in 1..(i - 1) : last.df[j].category # c

\* C21: the top-spending category of the summary has the largest summed
\* amount, and among the categories that tie for the largest sum it is the
\* one that occurs first in the supplied transaction sequence.
C21_TopCategoryFirstOccurrence ==
    (last.op = "generate_basic_insights" /\ Len(last.df) > 0)
    => LET present == {last.df[i].category : i \in DOMAIN last.df}
           top == last.out.top_category
       IN  /\ top \in present
           /\ \A c \in present : CategoryTotal(c) <= CategoryTotal(top)
           /\ last.out.top_amount = CategoryTotal(top)
           /\ \A c \in present :
                CategoryTotal(c) = CategoryTotal(top)
                => FirstOccurrence(top) <= FirstOccurrence(c)

\* C22: train_ml_model never raises to its caller: on every labeled set it
\* returns True or False.
C22_TrainReturnsBoolean ==
    last.op = "train_ml_model" => last.result \in {"True", "False"}

\* C23: an openai_categorization call issues no request without a client
\* (and returns the rule result) and exactly one with a client, also when the
\* request fails or the answer is rejected; categorize_transaction issues
\* none with the rule or ml strategy, and no other call issues any.
C23_AtMostOneRequest ==
    /\ last.op = "openai_categorization"
        => /\ last.requests = IF openai_client THEN 1 ELSE 0
           /\ ~openai_client => last.result = rule_based_categorization(last.description)
    /\ last.op = "categorize_transaction"
        => last.requests = IF last.method = "openai" /\ openai_client THEN 1 ELSE 0
    /\ last.op \in {"rule_based_categorization", "ml_categorization", "train_ml_model"}
        => last.requests = 0

C23_Witness ==
    /\ last.op = "openai_categorization"
    /\ openai_client
    /\ last.remote.kind = "error"
    /\ last.requests = 1
    /\ last.result = rule_based_categorization(last.description)

\* C24: on at most 5 transactions with amounts >= 0, detect_spending_anomalies
\* returns nothing, whatever the amounts: also on the empty frame, on one
\* row and on equal amounts.
C24_FiveRowsNeverFlagged ==
    (/\ last.op = "detect_spending_anomalies"
     /\ Len(last.df) <= 5
     /\ \A i \in DOMAIN last.df : last.df[i].amount >= 0)
    => Len(last.out) = 0

C24_Witness ==
    /\ last.op = "detect_spending_anomalies"
    /\ PassedAmounts = <<10, 10, 10, 10, 1000>>
    /\ Len(last.out) = 0

====
